---- MODULE Spec2Model ----
(***************************************************************************)
(* A model of osmium::area::detail::ProtoRing (proto_ring.hpp): a ring in  *)
(* the process of being built by the area assembler out of directed        *)
(* NodeRefSegments.  Rings and segments are objects addressed by small     *)
(* integers; the null pointer is NULL.                                     *)
(*                                                                         *)
(* assert() is modelled as compiled in (no NDEBUG): a failed assertion     *)
(* aborts the process before the statements that follow it.                *)
(* m_sum is an int64_t; the coordinates of the pool are small, so no       *)
(* arithmetic of the model comes near the width.                           *)
(***************************************************************************)
EXTENDS Integers, Sequences, FiniteSets

\* ---------------------------------------------------------------- bounds

\* Segments of the pool the assembler works on (Pool defines more).
NumSegs == 3
\* ProtoRing objects that can be constructed.
MaxRings == 2
\* Cap on the length of m_inner (push_back is unbounded in the code).
MaxInner == 1

\* Segments and rings of the nesting runs.
NestSegs == 2
NestRings == 2

NULL == 0

SegIds == 1..NumSegs
RingIds == 1..MaxRings
NestSegIds == 1..NestSegs
NestRingIds == 1..NestRings

\* ------------------------------------------------- segments (collaborator)

Loc(x, y) == [x |-> x, y |-> y]
NodeRef(ref, loc) == [ref |-> ref, loc |-> loc]

\* The segment pool: first and second endpoint and source way of every
\* segment.  Nodes 1 and 4 lie at (1,1), node 2 at (3,1), node 3 at (2,2).
\* Segments 1, 2, 3 are the sides of a triangle: 1 is stored against the
\* direction of travel, ends on node 4 and has a zero det (its endpoints
\* are collinear with the origin).  4 runs back along 2, 5 is degenerate:
\* it joins two more nodes at (1,1).
Pool ==
    <<  [first |-> NodeRef(4, Loc(1, 1)), second |-> NodeRef(3, Loc(2, 2)), way |-> 2],
        [first |-> NodeRef(1, Loc(1, 1)), second |-> NodeRef(2, Loc(3, 1)), way |-> 1],
        [first |-> NodeRef(2, Loc(3, 1)), second |-> NodeRef(3, Loc(2, 2)), way |-> 1],
        [first |-> NodeRef(2, Loc(3, 1)), second |-> NodeRef(1, Loc(1, 1)), way |-> 3],
        [first |-> NodeRef(5, Loc(1, 1)), second |-> NodeRef(6, Loc(1, 1)), way |-> 3] >>

\* Every segment object.
AllSegIds == DOMAIN Pool

\* The pool of the closure runs: two segments between the same two nodes
\* and the degenerate one.
LoopSegIds == {2, 4, 5}

\* NodeRefSegment::start() / stop(): the endpoints in the current direction.
start(sg, s) == IF sg[s].rev THEN Pool[s].second ELSE Pool[s].first
stop(sg, s) == IF sg[s].rev THEN Pool[s].first ELSE Pool[s].second

\* NodeRefSegment::det(): the shoelace cross-term of start and stop.
det(sg, s) ==
    start(sg, s).loc.x * stop(sg, s).loc.y - start(sg, s).loc.y * stop(sg, s).loc.x

\* Location order: by x, then by y.
LocLess(a, b) == a.x < b.x \/ (a.x = b.x /\ a.y < b.y)

\* operator<(NodeRefSegment, NodeRefSegment): the total order of segments,
\* on the endpoints as stored (it does not depend on the direction).
SegLess(a, b) ==
    \/ LocLess(Pool[a].first.loc, Pool[b].first.loc)
    \/ /\ Pool[a].first.loc = Pool[b].first.loc
       /\ LocLess(Pool[a].second.loc, Pool[b].second.loc)

\* NodeRefSegment::reverse(): swap start and stop.
seg_reverse(sg, s) == [sg EXCEPT ![s].rev = ~sg[s].rev]

\* NodeRefSegment::set_ring().
seg_set_ring(sg, s, r) == [sg EXCEPT ![s].ring = r]

\* NodeRefSegment::mark_direction_done() / mark_direction_not_done().
seg_mark_direction_done(sg, s) == [sg EXCEPT ![s].done = TRUE]
seg_mark_direction_not_done(sg, s) == [sg EXCEPT ![s].done = FALSE]

\* ------------------------------------------------------------------ state

VARIABLES
    seg,        \* segment id -> [rev, ring, done]: direction, owning ring, flag
    ring,       \* ring id -> the fields of the ProtoRing object
    drained,    \* rings that were passed as `other` to a join (discarded)
    aborted,    \* a failed assert has ended the process
    last,       \* the call made last: [op, r, arg, rep]; rep: the call before
                \* it was the same member function on the same ring
    way_set     \* the caller's std::set of ways, which it passes to get_ways

vars == <<seg, ring, drained, aborted, last, way_set>>

\* The heap as one value: what the member functions read and write.
State(sg, rg) == [seg |-> sg, ring |-> rg]

NoRing ==
    [created |-> FALSE, segs |-> <<>>, min |-> NULL, sum |-> 0,
     outer |-> NULL, inner |-> <<>>]

NoCall == [op |-> "none", r |-> NULL, arg |-> NULL, rep |-> FALSE]

Init ==
    /\ seg = [s \in AllSegIds |-> [rev |-> FALSE, ring |-> NULL, done |-> FALSE]]
    /\ ring = [r \in RingIds |-> NoRing]
    /\ drained = {}
    /\ aborted = FALSE
    /\ last = NoCall
    /\ way_set = {}

\* ------------------------------------------------- ProtoRing member functions
\* Each takes the heap st = [seg, ring] and yields [ok, st]: ok is FALSE when
\* an assert failed, and st is the heap as the call (or the abort) left it.

Ok(st) == [ok |-> TRUE, st |-> st]
Fail(st) == [ok |-> FALSE, st |-> st]

\* add_segment_back without the update of m_min_segment.
add_segment_back_keeps_min(st, r, s) ==
    IF s = NULL
    THEN Fail(st)
    ELSE Ok([seg |-> seg_set_ring(st.seg, s, r),
             ring |-> [st.ring EXCEPT ![r].segs = Append(@, s),
                                      ![r].sum = @ + det(st.seg, s)]])

\* add_segment_back without segment->set_ring(this).
add_segment_back_no_set_ring(st, r, s) ==
    IF s = NULL
    THEN Fail(st)
    ELSE LET rg == st.ring[r]
             m == IF SegLess(s, rg.min) THEN s ELSE rg.min
         IN  Ok([seg |-> st.seg,
                 ring |-> [st.ring EXCEPT ![r].min = m,
                                          ![r].segs = Append(@, s),
                                          ![r].sum = @ + det(st.seg, s)]])

\* void add_segment_back(NodeRefSegment* segment)
add_segment_back(st, r, s) ==
    IF s = NULL
    THEN Fail(st)
    ELSE LET rg == st.ring[r]
             m == IF SegLess(s, rg.min) THEN s ELSE rg.min
         IN  Ok([seg |-> seg_set_ring(st.seg, s, r),
                 ring |-> [st.ring EXCEPT ![r].min = m,
                                          ![r].segs = Append(@, s),
                                          ![r].sum = @ + det(st.seg, s)]])

\* explicit ProtoRing(NodeRefSegment* segment): m_min_segment(segment),
\* m_sum(0), then add_segment_back(segment).  When the assert of
\* add_segment_back fails no object has been constructed.
ProtoRing(st, r, s) ==
    LET fresh == [NoRing EXCEPT !.created = TRUE, !.min = s, !.sum = 0]
        res == add_segment_back([st EXCEPT !.ring[r] = fresh], r, s)
    IN  IF res.ok THEN res ELSE Fail(st)

\* set_outer_ring without assert(m_inner.empty()).
set_outer_ring_unchecked(st, r, o) ==
    IF o = NULL
    THEN Fail(st)
    ELSE Ok([st EXCEPT !.ring[r].outer = o])

\* void set_outer_ring(ProtoRing* outer_ring)
set_outer_ring(st, r, o) ==
    IF o = NULL \/ st.ring[r].inner # <<>>
    THEN Fail(st)
    ELSE Ok([st EXCEPT !.ring[r].outer = o])

\* add_inner_ring with the push_back ahead of assert(!m_outer_ring).
add_inner_ring_late_assert(st, r, i) ==
    IF i = NULL
    THEN Fail(st)
    ELSE IF st.ring[r].outer # NULL
         THEN Fail([st EXCEPT !.ring[r].inner = Append(@, i)])
         ELSE Ok([st EXCEPT !.ring[r].inner = Append(@, i)])

\* void add_inner_ring(ProtoRing* ring)
add_inner_ring(st, r, i) ==
    IF i = NULL \/ st.ring[r].outer # NULL
    THEN Fail(st)
    ELSE Ok([st EXCEPT !.ring[r].inner = Append(@, i)])

\* bool is_outer()
is_outer(st, r) == st.ring[r].outer = NULL

\* const NodeRef& get_node_ref_start() / get_node_ref_stop()
get_node_ref_start(st, r) == start(st.seg, Head(st.ring[r].segs))
get_node_ref_stop(st, r) ==
    stop(st.seg, st.ring[r].segs[Len(st.ring[r].segs)])

\* closed comparing whole node references (id and location).
closed_by_node_ref(st, r) == get_node_ref_start(st, r) = get_node_ref_stop(st, r)

\* bool closed()
closed(st, r) == get_node_ref_start(st, r).loc = get_node_ref_stop(st, r).loc

\* std::for_each(m_segments.begin(), m_segments.end(), f) for the three
\* lambdas of the class: f applied to the segment objects in sequence order.
RECURSIVE for_each_reverse(_, _)
for_each_reverse(sg, segs) ==
    IF segs = <<>> THEN sg
    ELSE for_each_reverse(seg_reverse(sg, Head(segs)), Tail(segs))

RECURSIVE for_each_done(_, _)
for_each_done(sg, segs) ==
    IF segs = <<>> THEN sg
    ELSE for_each_done(seg_mark_direction_done(sg, Head(segs)), Tail(segs))

RECURSIVE for_each_not_done(_, _)
for_each_not_done(sg, segs) ==
    IF segs = <<>> THEN sg
    ELSE for_each_not_done(seg_mark_direction_not_done(sg, Head(segs)), Tail(segs))

\* std::reverse(m_segments.begin(), m_segments.end())
std_reverse(segs) == [i \in 1..Len(segs) |-> segs[Len(segs) + 1 - i]]

\* reverse without m_sum = -m_sum.
reverse_keeps_sum(st, r) ==
    Ok([seg |-> for_each_reverse(st.seg, st.ring[r].segs),
        ring |-> [st.ring EXCEPT ![r].segs = std_reverse(@)]])

\* reverse with std::rotate (last segment to the front) for std::reverse.
reverse_rotates(st, r) ==
    Ok([seg |-> for_each_reverse(st.seg, st.ring[r].segs),
        ring |-> [st.ring EXCEPT
                     ![r].segs = <<@[Len(@)]>> \o SubSeq(@, 1, Len(@) - 1),
                     ![r].sum = 0 - @]])

\* reverse that turns the segments around but not the sequence.
reverse_segments_only(st, r) ==
    Ok([seg |-> for_each_reverse(st.seg, st.ring[r].segs),
        ring |-> [st.ring EXCEPT ![r].sum = -@]])

\* reverse that turns the sequence around but not the segments.
reverse_order_only(st, r) ==
    Ok([st EXCEPT !.ring[r].segs = std_reverse(@), !.ring[r].sum = -@])

\* void reverse()
reverse(st, r) ==
    Ok([seg |-> for_each_reverse(st.seg, st.ring[r].segs),
        ring |-> [st.ring EXCEPT ![r].segs = std_reverse(@),
                                 ![r].sum = 0 - @]])

\* void mark_direction_done()
mark_direction_done(st, r) ==
    Ok([st EXCEPT !.seg = for_each_done(st.seg, st.ring[r].segs)])

\* bool is_cw()
is_cw(st, r) == st.ring[r].sum <= 0

\* fix_direction with the test negated.
fix_direction_negated(st, r) ==
    IF is_cw(st, r) # is_outer(st, r) THEN reverse(st, r) ELSE Ok(st)

\* void fix_direction()
fix_direction(st, r) ==
    IF is_cw(st, r) = is_outer(st, r) THEN reverse(st, r) ELSE Ok(st)

\* reset that also takes the ring off the inner list of its outer ring.
reset_unlinks(st, r) ==
    LET o == st.ring[r].outer
        keep(q) == q # r
        rg == IF o = NULL THEN st.ring
              ELSE [st.ring EXCEPT ![o].inner = SelectSeq(@, keep)]
    IN  Ok([seg |-> for_each_not_done(st.seg, st.ring[r].segs),
            ring |-> [rg EXCEPT ![r].inner = <<>>, ![r].outer = NULL]])

\* reset without m_outer_ring = nullptr.
reset_keeps_outer(st, r) ==
    Ok([seg |-> for_each_not_done(st.seg, st.ring[r].segs),
        ring |-> [st.ring EXCEPT ![r].inner = <<>>]])

\* void reset()
reset(st, r) ==
    Ok([seg |-> for_each_not_done(st.seg, st.ring[r].segs),
        ring |-> [st.ring EXCEPT ![r].inner = <<>>, ![r].outer = NULL]])

\* get_ways that assigns the ways of the segments to the set.
get_ways_assigns(st, segs, ways) == {Pool[segs[i]].way : i \in DOMAIN segs}

\* void get_ways(std::set<const osmium::Way*>& ways): the set after the call.
RECURSIVE get_ways(_, _, _)
get_ways(st, segs, ways) ==
    IF segs = <<>> THEN ways
    ELSE get_ways(st, Tail(segs), ways \cup {Pool[Head(segs)].way})

\* The loop of join_forward over other.m_segments (the sequence as it was
\* when the loop began: `other` is another object, the loop does not grow it).
RECURSIVE join_forward_loop(_, _, _)
join_forward_loop(st, r, segs) ==
    IF segs = <<>> THEN Ok(st)
    ELSE LET res == add_segment_back(st, r, Head(segs))
         IN  IF res.ok THEN join_forward_loop(res.st, r, Tail(segs)) ELSE res

\* join_forward that moves the segments: other.m_segments is left empty.
join_forward_moves(st, r, o) ==
    LET res == join_forward_loop(st, r, st.ring[o].segs)
    IN  [res EXCEPT !.st.ring[o].segs = <<>>]

\* join_forward walking other.m_segments from rbegin() to rend().
join_forward_from_rbegin(st, r, o) ==
    join_forward_loop(st, r, std_reverse(st.ring[o].segs))

\* void join_forward(ProtoRing& other)
join_forward(st, r, o) == join_forward_loop(st, r, st.ring[o].segs)

\* The loop of join_backward from other.m_segments.rbegin() to rend().
RECURSIVE join_backward_loop(_, _, _)
join_backward_loop(st, r, segs) ==
    IF segs = <<>> THEN Ok(st)
    ELSE LET s == segs[Len(segs)]
             res == add_segment_back([st EXCEPT !.seg = seg_reverse(st.seg, s)], r, s)
         IN  IF res.ok
             THEN join_backward_loop(res.st, r, SubSeq(segs, 1, Len(segs) - 1))
             ELSE res

\* join_backward walking other.m_segments from begin() to end().
join_backward_from_begin(st, r, o) ==
    join_backward_loop(st, r, std_reverse(st.ring[o].segs))

\* void join_backward(ProtoRing& other)
join_backward(st, r, o) == join_backward_loop(st, r, st.ring[o].segs)

\* ---------------------------------------------------------------- actions
\* The assembler's calls.  It constructs rings one after the other, gives a
\* ring only segments that no ring holds yet, joins two different rings and
\* discards the ring it passed as `other`; a ring pointer it passes is null
\* or points to another ring in use (no ring is nested in itself).

Live(r) == ring[r].created /\ r \notin drained
LiveRings == {r \in RingIds : Live(r)}
FreeSegs == {s \in AllSegIds : seg[s].ring = NULL}

\* The effect of a call on the variables: the heap, the abort and the record
\* of the call.
Call(op, r, arg, res) ==
    /\ seg' = res.st.seg
    /\ ring' = res.st.ring
    /\ aborted' = ~res.ok
    /\ last' = [op |-> op, r |-> r, arg |-> arg,
                rep |-> last.op = op /\ last.r = r]
    /\ UNCHANGED way_set

CreateFrom(R, S) ==
    /\ ~aborted
    /\ \E r \in R, s \in (S \cap FreeSegs) \cup {NULL} :
        /\ ~ring[r].created
        /\ \A q \in 1..(r - 1) : ring[q].created
        /\ Call("ProtoRing", r, s, ProtoRing(State(seg, ring), r, s))
        /\ UNCHANGED drained

AppendBackFrom(S) ==
    /\ ~aborted
    /\ \E r \in LiveRings, s \in (S \cap FreeSegs) \cup {NULL} :
        /\ Call("add_segment_back", r, s, add_segment_back(State(seg, ring), r, s))
        /\ UNCHANGED drained

JoinForward ==
    /\ ~aborted
    /\ \E r \in LiveRings, o \in LiveRings :
        /\ r # o
        /\ Call("join_forward", r, o, join_forward(State(seg, ring), r, o))
        /\ drained' = drained \cup {o}

JoinBackward ==
    /\ ~aborted
    /\ \E r \in LiveRings, o \in LiveRings :
        /\ r # o
        /\ Call("join_backward", r, o, join_backward(State(seg, ring), r, o))
        /\ drained' = drained \cup {o}

Reverse ==
    /\ ~aborted
    /\ \E r \in LiveRings :
        /\ Call("reverse", r, NULL, reverse(State(seg, ring), r))
        /\ UNCHANGED drained

FixDirection ==
    /\ ~aborted
    /\ \E r \in LiveRings :
        /\ Call("fix_direction", r, NULL, fix_direction(State(seg, ring), r))
        /\ UNCHANGED drained

MarkDirectionDone ==
    /\ ~aborted
    /\ \E r \in LiveRings :
        /\ Call("mark_direction_done", r, NULL, mark_direction_done(State(seg, ring), r))
        /\ UNCHANGED drained

SetOuterRing ==
    /\ ~aborted
    /\ \E r \in LiveRings :
       \E o \in (LiveRings \ {r}) \cup {NULL} :
        /\ Call("set_outer_ring", r, o, set_outer_ring(State(seg, ring), r, o))
        /\ UNCHANGED drained

AddInnerRing ==
    /\ ~aborted
    /\ \E r \in LiveRings :
       \E i \in (LiveRings \ {r}) \cup {NULL} :
        /\ Len(ring[r].inner) < MaxInner
        /\ Call("add_inner_ring", r, i, add_inner_ring(State(seg, ring), r, i))
        /\ UNCHANGED drained

Reset ==
    /\ ~aborted
    /\ \E r \in LiveRings :
        /\ Call("reset", r, NULL, reset(State(seg, ring), r))
        /\ UNCHANGED drained

\* The assembly of rings out of the segment pool.
Create == CreateFrom(RingIds, SegIds)
AppendBack == AppendBackFrom(SegIds)

Next ==
    \/ Create
    \/ AppendBack
    \/ JoinForward
    \/ JoinBackward
    \/ Reverse
    \/ FixDirection

Spec == Init /\ [][Next]_vars

\* The later phases work on a few rings built from a small pool.
NestCreate == CreateFrom(NestRingIds, NestSegIds)
NestAppendBack == AppendBackFrom(NestSegIds)

\* Orientation: rings are built, declared inner rings and their direction
\* is fixed.
DirNext ==
    \/ NestCreate
    \/ NestAppendBack
    \/ Reverse
    \/ FixDirection
    \/ SetOuterRing

SpecDir == Init /\ [][DirNext]_vars

\* Nesting: rings are built, finalized, nested and reset.
NestNext ==
    \/ NestCreate
    \/ NestAppendBack
    \/ MarkDirectionDone
    \/ SetOuterRing
    \/ AddInnerRing
    \/ Reset

SpecNest == Init /\ [][NestNext]_vars

\* Ways: rings are built and joined, and the caller collects their ways in
\* its set, one ring after the other.
GetWays ==
    /\ ~aborted
    /\ \E r \in LiveRings :
        /\ way_set' = get_ways(State(seg, ring), ring[r].segs, way_set)
        /\ last' = [op |-> "get_ways", r |-> r, arg |-> NULL,
                    rep |-> last.op = "get_ways" /\ last.r = r]
        /\ UNCHANGED <<seg, ring, drained, aborted>>

WaysNext ==
    \/ Create
    \/ AppendBack
    \/ JoinForward
    \/ GetWays

SpecWays == Init /\ [][WaysNext]_vars

\* Everything that changes a ring, on the small pool.
AllNext ==
    \/ NestCreate
    \/ NestAppendBack
    \/ JoinForward
    \/ JoinBackward
    \/ Reverse
    \/ FixDirection
    \/ SetOuterRing
    \/ AddInnerRing
    \/ Reset

SpecAll == Init /\ [][AllNext]_vars

\* Closure: rings are built from the closure pool, joined, turned around,
\* declared inner rings and their direction is fixed.
LoopCreate == CreateFrom(RingIds, LoopSegIds)
LoopAppendBack == AppendBackFrom(LoopSegIds)

LoopNext ==
    \/ LoopCreate
    \/ LoopAppendBack
    \/ JoinForward
    \/ JoinBackward
    \/ Reverse
    \/ FixDirection
    \/ SetOuterRing

SpecLoop == Init /\ [][LoopNext]_vars

\* ----------------------------------------------------------------- claims

Range(q) == {q[i] : i \in DOMAIN q}

Created == {r \in RingIds : ring[r].created}

\* The sum of the current det of the segments of a chain, recomputed.
RECURSIVE SumDet(_, _)
SumDet(sg, segs) ==
    IF segs = <<>> THEN 0 ELSE det(sg, Head(segs)) + SumDet(sg, Tail(segs))

\* How often segment s occurs in a chain.
Occurrences(segs, s) == Cardinality({i \in DOMAIN segs : segs[i] = s})

\* C1: for every ring that was not passed as `other` to a join, m_sum equals
\* the sum of the current det of the segments of its chain, after any
\* sequence of constructions, appends, joins, reversals and direction fixes.
C1_SumIsSumOfDets ==
    \A r \in Created :
        r \notin drained => ring[r].sum = SumDet(seg, ring[r].segs)

\* C1 witness: a ring that absorbed another ring backwards and was then
\* turned around by fix_direction, with a sum that is not zero.
C1_Witness ==
    /\ last.op = "fix_direction"
    /\ drained # {}
    /\ Len(ring[last.r].segs) >= 3
    /\ ring[last.r].sum > 0
    /\ \E s \in Range(ring[last.r].segs) : seg[s].rev
    /\ \E s \in Range(ring[last.r].segs) : ~seg[s].rev

\* C2: m_min_segment is a member of the chain and no segment of the chain is
\* smaller than it under the segment order, for every ring at all times.
C2_MinIsMinimum ==
    \A r \in Created :
        /\ ring[r].min \in Range(ring[r].segs)
        /\ \A s \in Range(ring[r].segs) : ~SegLess(s, ring[r].min)

\* C2 witness: after a backward join the minimum is a segment that was
\* appended after the first one.
C2_Witness ==
    /\ last.op = "join_backward"
    /\ Len(ring[last.r].segs) >= 3
    /\ ring[last.r].min # Head(ring[last.r].segs)

C4_FixDirectionIdempotent ==
    [][(/\ last.op = "fix_direction"
        /\ last'.op = "fix_direction"
        /\ last'.r = last.r)
       => (seg' = seg /\ ring' = ring)]_vars

\* C5: reverse is an involution: reversing the ring a reversal has just
\* produced gives back the chain order, the direction of every segment and
\* the sum from before that reversal.
C5_ReverseInvolution ==
    [][last'.op = "reverse"
       => reverse(State(seg', ring'), last'.r).st = State(seg, ring)]_vars

\* C5 witness: a ring of three segments has been reversed twice in a row.
C5_Witness ==
    /\ last.op = "reverse"
    /\ last.rep
    /\ Len(ring[last.r].segs) >= 3
    /\ ring[last.r].sum # 0

\* C6: no ring has m_outer_ring set and a non-empty m_inner at the same time.
C6_InnerHasNoInner ==
    \A r \in Created : ~(ring[r].outer # NULL /\ ring[r].inner # <<>>)

\* C6 witness: one ring is an inner ring and lists no inner rings, the
\* other, once reset, owns an inner ring.
C6_Witness ==
    /\ ~aborted
    /\ last.op = "add_inner_ring"
    /\ ring[last.r].inner # <<>>
    /\ \E q \in Created : ring[q].outer # NULL /\ ring[q].inner = <<>>

\* C7: every ring that is listed in the m_inner of a ring has an empty
\* m_inner of its own.
C7_NoInnerOfInner ==
    \A r \in Created :
        \A i \in Range(ring[r].inner) : ring[i].inner = <<>>

\* C8: add_segment_back with a null segment, set_outer_ring on a ring with
\* inner rings and add_inner_ring on a ring with an outer ring all abort,
\* and an aborting call has changed no field of a ring or of a segment.
C8_ViolationsAbortUnchanged ==
    [][/\ (last'.op = "add_segment_back" /\ last'.arg = NULL) => aborted'
       /\ (last'.op = "set_outer_ring" /\ ring[last'.r].inner # <<>>) => aborted'
       /\ (last'.op = "add_inner_ring" /\ ring[last'.r].outer # NULL) => aborted'
       /\ aborted' => (seg' = seg /\ ring' = ring)]_vars

\* C8 witness: add_inner_ring was called on an inner ring and aborted.
C8_Witness ==
    /\ aborted
    /\ last.op = "add_inner_ring"
    /\ last.arg # NULL
    /\ ring[last.r].outer # NULL

\* The segments that have been added to a ring.
Added == {s \in SegIds : \E r \in Created : s \in Range(ring[r].segs)}

\* C9 as claimed: every segment that has been added to a ring is in the
\* chain of exactly one ring, the one its back-reference names.
C9_SegmentInOneRing ==
    \A s \in Added :
        {r \in Created : s \in Range(ring[r].segs)} = {seg[s].ring}

\* C9 amended: every segment that has been added to a ring is, exactly once,
\* in the chain of exactly one of the rings that were not passed as `other`
\* to a join, and its back-reference names that ring (a ring passed as
\* `other` keeps the segments it gave up in its own chain).
C9_SegmentInOneLiveRing ==
    \A s \in Added :
        /\ {r \in Created \ drained : s \in Range(ring[r].segs)} = {seg[s].ring}
        /\ \A r \in Created \ drained : Occurrences(ring[r].segs, s) <= 1

\* C9 witness: after a join a segment is owned by the joined ring and is
\* still in the chain of the ring that gave it up.
C9_Witness ==
    /\ last.op \in {"join_forward", "join_backward"}
    /\ \E s \in Range(ring[last.arg].segs) :
        /\ seg[s].ring = last.r
        /\ s \in Range(ring[last.r].segs)

\* C10: join_forward leaves the ring with its chain followed by the chain of
\* `other` in the order `other` had, no segment reversed, as many segments
\* as both had and the sum of both sums.
C10_JoinForwardConcatenates ==
    [][last'.op = "join_forward"
       => LET r == last'.r
              o == last'.arg
          IN  /\ ring'[r].segs = ring[r].segs \o ring[o].segs
              /\ Len(ring'[r].segs) = Len(ring[r].segs) + Len(ring[o].segs)
              /\ ring'[r].sum = ring[r].sum + ring[o].sum
              /\ \A s \in SegIds : seg'[s].rev = seg[s].rev]_vars

\* C10 witness: join_forward has absorbed a ring of two segments.
C10_Witness ==
    /\ last.op = "join_forward"
    /\ Len(ring[last.arg].segs) >= 2
    /\ Len(ring[last.r].segs) >= 3
    /\ ring[last.r].sum # ring[last.arg].sum

FirstStartLocation(r) ==
    LET s == ring[r].segs[1]
    IN  IF seg[s].rev THEN Pool[s].second.loc ELSE Pool[s].first.loc
LastStopLocation(r) ==
    LET s == ring[r].segs[Len(ring[r].segs)]
    IN  IF seg[s].rev THEN Pool[s].first.loc ELSE Pool[s].second.loc

\* C12: closed() is true exactly when the start location of the first segment
\* equals the stop location of the last one, for chains of any length and
\* whatever the node ids at the two ends are; a ring of one segment is closed
\* exactly when that segment starts and stops at the same location.
C12_ClosedIffSameLocation ==
    \A r \in Created :
        /\ closed(State(seg, ring), r)
            <=> (FirstStartLocation(r) = LastStopLocation(r))
        /\ Len(ring[r].segs) = 1
            => (closed(State(seg, ring), r)
                <=> Pool[ring[r].segs[1]].first.loc = Pool[ring[r].segs[1]].second.loc)

\* C12 witness: a closed ring of one segment and a closed ring of two, each
\* with different node ids at its two ends, next to each other.
C12_Witness ==
    \E a, b \in Created :
        /\ Len(ring[a].segs) = 1
        /\ Len(ring[b].segs) = 2
        /\ \A r \in {a, b} :
            /\ closed(State(seg, ring), r)
            /\ get_node_ref_start(State(seg, ring), r).ref
                # get_node_ref_stop(State(seg, ring), r).ref

\* C13: join_backward appends the other ring's segments in reverse order,
\* each of them turned around exactly once (start and stop swapped, det
\* negated) and no other segment touched; the receiver's sum becomes its
\* old sum minus the other ring's sum.
C13_JoinBackwardAppendsReversed ==
    [][last'.op = "join_backward"
       => LET r == last'.r
              o == last'.arg
          IN  /\ ring'[r].segs = ring[r].segs \o std_reverse(ring[o].segs)
              /\ ring'[r].sum = ring[r].sum - ring[o].sum
              /\ \A s \in Range(ring[o].segs) :
                    /\ seg'[s].rev = ~seg[s].rev
                    /\ start(seg', s) = stop(seg, s)
                    /\ stop(seg', s) = start(seg, s)
                    /\ det(seg', s) = -det(seg, s)
              /\ \A s \in AllSegIds \ Range(ring[o].segs) :
                    seg'[s].rev = seg[s].rev]_vars

\* C13 witness: join_backward has absorbed a ring of two segments whose sum
\* was not zero.
C13_Witness ==
    /\ last.op = "join_backward"
    /\ Len(ring[last.arg].segs) >= 2
    /\ ring[last.arg].sum # 0
    /\ Len(ring[last.r].segs) > Len(ring[last.arg].segs)

\* Each segment of the chain stops where the next one starts.
Contiguous(sg, segs) ==
    \A i \in 1..(Len(segs) - 1) : stop(sg, segs[i]).loc = start(sg, segs[i + 1]).loc

\* C14: joining two contiguous chains that meet (join_forward: the other
\* chain starts where the receiver stops; join_backward: the other chain
\* stops where the receiver stops) gives a contiguous chain, and reverse
\* turns a contiguous chain into a contiguous chain.
C14_ContinuityPreserved ==
    [][LET r == last'.r
           o == last'.arg
           pre == State(seg, ring)
       IN  /\ (/\ last'.op = "join_forward"
                /\ Contiguous(seg, ring[r].segs) /\ Contiguous(seg, ring[o].segs)
                /\ get_node_ref_start(pre, o).loc = get_node_ref_stop(pre, r).loc)
               => Contiguous(seg', ring'[r].segs)
           /\ (/\ last'.op = "join_backward"
                /\ Contiguous(seg, ring[r].segs) /\ Contiguous(seg, ring[o].segs)
                /\ get_node_ref_stop(pre, o).loc = get_node_ref_stop(pre, r).loc)
               => Contiguous(seg', ring'[r].segs)
           /\ (last'.op = "reverse" /\ Contiguous(seg, ring[r].segs))
               => Contiguous(seg', ring'[r].segs)]_vars

\* C14 witness: a contiguous chain of three segments that a join has just
\* completed from a chain that had been turned around before.
C14_Witness ==
    /\ last.op \in {"join_forward", "join_backward"}
    /\ Len(ring[last.r].segs) = 3
    /\ Contiguous(seg, ring[last.r].segs)
    /\ \E s \in Range(ring[last.r].segs) : seg[s].rev

\* C15: reset of ring r leaves r's segment sequence, the orientation and
\* the owning ring of every segment, r's m_min_segment and r's m_sum as
\* they were, and it leaves m_outer_ring and m_inner of every other ring as
\* they were, also of rings that list r as an inner ring or name r as
\* their outer ring.
C15_ResetFrame ==
    [][last'.op = "reset"
       => LET r == last'.r
          IN  /\ ring'[r].segs = ring[r].segs
              /\ ring'[r].min = ring[r].min
              /\ ring'[r].sum = ring[r].sum
              /\ \A s \in AllSegIds :
                    seg'[s].rev = seg[s].rev /\ seg'[s].ring = seg[s].ring
              /\ \A q \in RingIds \ {r} : ring'[q] = ring[q]]_vars

\* C15 witness: reset has been called on a ring with a sum other than zero
\* that another ring lists as an inner ring, and a segment of that other
\* ring is finalized.
C15_Witness ==
    /\ last.op = "reset"
    /\ ring[last.r].sum # 0
    /\ \E s \in AllSegIds : seg[s].done /\ seg[s].ring # last.r
    /\ \E q \in Created \ {last.r} : last.r \in Range(ring[q].inner)

\* The ways of the segments of ring r.
MemberWays(r) == {Pool[s].way : s \in Range(ring[r].segs)}

\* C16 as stated: after get_ways the set holds exactly the ways of the ring's
\* segments, whatever it held before the call.
C16_GetWaysExact ==
    last.op = "get_ways" => way_set = MemberWays(last.r)

\* C16: get_ways adds the ways of the ring's segments to the set: afterwards
\* the set holds what it held before and the ways of the ring's segments
\* (each once: it is a set), and nothing else; a set that was empty before
\* the call holds exactly the ways of the ring's segments.
C16_GetWaysAddsMemberWays ==
    [][last'.op = "get_ways"
       => /\ way_set' = way_set \cup MemberWays(last'.r)
          /\ (way_set = {} => way_set' = MemberWays(last'.r))
          /\ <<seg', ring'>> = <<seg, ring>>]_vars

\* C16 witness: get_ways on a ring with two segments of one way, into a set
\* that already held a way of another ring.
C16_Witness ==
    /\ last.op = "get_ways"
    /\ Len(ring[last.r].segs) > Cardinality(MemberWays(last.r))
    /\ way_set \ MemberWays(last.r) # {}

\* C17: reverse and fix_direction leave closed() of the ring as it was.
C17_ReversePreservesClosed ==
    [][last'.op \in {"reverse", "fix_direction"}
       => closed(State(seg', ring'), last'.r) = closed(State(seg, ring), last'.r)]_vars

\* C17 witness: fix_direction has turned a closed ring of three segments
\* around, next to fix_direction on an open ring.
C17_Witness ==
    /\ last.op = "fix_direction"
    /\ Len(ring[last.r].segs) = 3
    /\ closed(State(seg, ring), last.r)
    /\ \A s \in Range(ring[last.r].segs) : seg[s].rev

\* C18: a ring that exists holds at least one segment, and no call takes a
\* segment out of a ring: after every call each ring holds at least as many
\* segments as before, also the ring passed as `other` to a join.
C18_ChainNeverShrinks ==
    [][\A r \in RingIds :
        /\ ring[r].created => ring'[r].created
        /\ ring'[r].created
            => /\ Len(ring'[r].segs) >= 1
               /\ Len(ring'[r].segs) >= Len(ring[r].segs)]_vars

\* C18 witness: a ring that was passed as `other` to a join still holds its
\* segments after the receiver of the join has been reset.
C18_Witness ==
    /\ last.op = "reset"
    /\ Len(ring[last.r].segs) >= 2
    /\ \E o \in drained : Len(ring[o].segs) >= 1
====
